---- MODULE Spec2Model ----
(***************************************************************************)
(* Exam seating arrangement: ExamSession (roster and room list), Room      *)
(* (rows x columns seating grid), SeatingAllocator (capacity gate, branch  *)
(* grouping, even/odd lists, banded and sequential room walks) and its     *)
(* statistics.  Indices are 0-based as in the Python source; a Python list *)
(* l is a sequence whose element l[i] is written At(l, i).                 *)
(***************************************************************************)
EXTENDS Integers, Sequences, FiniteSets, TLC

VARIABLES students, rooms, odd_index, even_index, op, result, error, stats,
          rooms_before, args, returned

vars == <<students, rooms, odd_index, even_index, op, result, error, stats,
          rooms_before, args, returned>>

----------------------------------------------------------------------------
(* Bounds of the model *)

MaxStudents == 4
MaxRooms == 2

(* Hall tickets the roster is drawn from: the last four characters of a     *)
(* ten character hall ticket, branch code (characters 6-7) then serial.     *)
HallTickets == {501, 502, 503, 401, 402, 9901}

(* (rows, columns) of the rooms that can be added; zero and negative        *)
(* dimensions are accepted by Room.__init__.                                *)
RoomShapes == {<<2, 2>>, <<1, 3>>, <<0, 2>>, <<-1, -1>>}

RoomNos == 101 .. (100 + MaxRooms)

----------------------------------------------------------------------------
(* utils/constants.py and models/student.py *)

BRANCH_CODES == (1 :> "CIV") @@ (2 :> "EEE") @@ (3 :> "MECH") @@ (4 :> "ECE")
                @@ (5 :> "CSE") @@ (12 :> "IT") @@ (21 :> "AERO")
                @@ (66 :> "CSM") @@ (27 :> "XYZ")

\* Student._get_branch_from_hallticket: table lookup of the branch code,
\* the empty label when the code is not in the table
_get_branch_from_hallticket(hallticket_no) ==
    LET branch_code == hallticket_no \div 100
    IN  IF branch_code \in DOMAIN BRANCH_CODES THEN BRANCH_CODES[branch_code]
        ELSE ""

\* Student.__init__ without an explicit branch
Student(hallticket_no) ==
    [hallticket_no |-> hallticket_no,
     branch_name   |-> _get_branch_from_hallticket(hallticket_no)]

\* Python's None in a seat or in a padded list
None == [hallticket_no |-> 0, branch_name |-> "None"]

\* l[i] of a Python list
At(l, i) == l[i + 1]

----------------------------------------------------------------------------
(* models/room.py *)

EmptyGrid(rows, columns) ==
    [r \in 0 .. (rows - 1) |-> [c \in 0 .. (columns - 1) |-> None]]

\* Room.__init__
Room(room_no, rows, columns) ==
    [room_no |-> room_no, rows |-> rows, columns |-> columns,
     seating_grid |-> EmptyGrid(rows, columns)]

\* Room.capacity
capacity(room) == room.rows * room.columns

\* the bounds test of set_seat and get_seat
OutOfBounds(room, row, column) ==
    row < 0 \/ row >= room.rows \/ column < 0 \/ column >= room.columns

\* set_seat that fills the whole row of the seat
set_seat_WholeRow(room, row, column, student) ==
    [room EXCEPT !.seating_grid[row] = [c \in DOMAIN @ |-> student]]

\* Room.set_seat on an in-bounds seat
set_seat(room, row, column, student) ==
    [room EXCEPT !.seating_grid[row][column] = student]

\* Room.get_seat on an in-bounds seat
get_seat(room, row, column) == room.seating_grid[row][column]

\* Room.is_seat_empty
is_seat_empty(room, row, column) == get_seat(room, row, column) = None

\* the seats of a room: range(rows) x range(columns)
Seats(room) == (0 .. (room.rows - 1)) \X (0 .. (room.columns - 1))

\* Room.get_empty_seats_count
get_empty_seats_count(room) ==
    Cardinality({s \in Seats(room) : is_seat_empty(room, s[1], s[2])})

\* clear_all_seats that leaves the grid as it is
clear_all_seats_Noop(room) == room

\* Room.clear_all_seats
clear_all_seats(room) ==
    [room EXCEPT !.seating_grid = EmptyGrid(room.rows, room.columns)]

----------------------------------------------------------------------------
(* models/exam_session.py *)

RECURSIVE SumCapacity(_, _)
SumCapacity(rs, i) ==
    IF i > Len(rs) THEN 0 ELSE capacity(rs[i]) + SumCapacity(rs, i + 1)

\* ExamSession.get_total_capacity
get_total_capacity(rs) == SumCapacity(rs, 1)

\* the gate with a strict comparison
has_sufficient_capacity_Strict(sts, rs) == get_total_capacity(rs) > Len(sts)

\* ExamSession.has_sufficient_capacity
has_sufficient_capacity(sts, rs) == get_total_capacity(rs) >= Len(sts)

\* get_additional_capacity_needed without the sufficient-capacity case
get_additional_capacity_needed_Unguarded(sts, rs) ==
    Len(sts) - get_total_capacity(rs)

\* ExamSession.get_additional_capacity_needed
get_additional_capacity_needed(sts, rs) ==
    IF has_sufficient_capacity(sts, rs) THEN 0
    ELSE Len(sts) - get_total_capacity(rs)

\* ArrangementController.check_capacity on the loaded students and the rooms
check_capacity(sts, rs) ==
    LET total_students == Len(sts)
        total_capacity == SumCapacity(rs, 1)
        sufficient == total_capacity >= total_students
    IN  [sufficient |-> sufficient,
         total_students |-> total_students,
         total_capacity |-> total_capacity,
         extra_capacity |-> IF sufficient THEN total_capacity - total_students ELSE 0,
         additional_needed |-> IF sufficient THEN 0 ELSE total_students - total_capacity]

\* position of a branch among the groups built so far, 0 when absent
RECURSIVE GroupIndex(_, _, _)
GroupIndex(groups, branch, i) ==
    IF i > Len(groups) THEN 0
    ELSE IF groups[i].branch = branch THEN i
    ELSE GroupIndex(groups, branch, i + 1)

\* ExamSession.get_students_by_branch: the dict as the sequence of its
\* items in insertion order
RECURSIVE GroupLoop(_, _, _)
GroupLoop(sts, i, branch_dict) ==
    IF i > Len(sts) THEN branch_dict
    ELSE LET student == sts[i]
             g == GroupIndex(branch_dict, student.branch_name, 1)
         IN  IF g = 0
             THEN GroupLoop(sts, i + 1,
                    Append(branch_dict, [branch |-> student.branch_name,
                                         students |-> <<student>>]))
             ELSE GroupLoop(sts, i + 1,
                    [branch_dict EXCEPT ![g].students = Append(@, student)])

\* the groups in the reverse of the order the dict holds them
get_students_by_branch_Reversed(sts) ==
    LET d == GroupLoop(sts, 1, <<>>) IN [g \in 1 .. Len(d) |-> d[Len(d) + 1 - g]]

get_students_by_branch(sts) == GroupLoop(sts, 1, <<>>)

----------------------------------------------------------------------------
(* models/seating_allocator.py *)

Max(a, b) == IF a >= b THEN a ELSE b

Nones(n) == [i \in 1 .. n |-> None]

\* The lists of _create_even_odd_lists are Python list objects: heap is the
\* sequence of the lists alive in the call, a list is named by its position.
\* Positions 1 .. n hold the lists of branch_wise_list, which are the very
\* lists of the branch_groups dict.

\* students.copy() that hands back the list itself
Copy_Alias(heap, l) == [heap |-> heap, list |-> l]

\* students.copy(): a new list with the same entries
Copy(heap, l) == [heap |-> Append(heap, heap[l]), list |-> Len(heap) + 1]

\* extend that puts the entries in front
Extend_Prepend(heap, l, entries) == [heap EXCEPT ![l] = entries \o @]

\* list.extend(entries)
Extend(heap, l, entries) == [heap EXCEPT ![l] = @ \o entries]

\* the loop of _create_even_odd_lists over the n lists of branch_wise_list
RECURSIVE DistributeLoop(_, _, _, _, _)
DistributeLoop(heap, n, i, even_list, odd_list) ==
    IF i >= n THEN [heap |-> heap, even_list |-> even_list, odd_list |-> odd_list]
    ELSE LET students_i == i + 1 IN
         IF i = 0
         THEN LET c == Copy(heap, students_i)
              IN  DistributeLoop(c.heap, n, i + 1, c.list, odd_list)
         ELSE IF i = 1
         THEN LET c == Copy(heap, students_i)
              IN  DistributeLoop(c.heap, n, i + 1, even_list, c.list)
         ELSE IF Len(heap[even_list]) > Len(heap[odd_list])
              THEN DistributeLoop(Extend(heap, odd_list, heap[students_i]), n, i + 1,
                                  even_list, odd_list)
              ELSE DistributeLoop(Extend(heap, even_list, heap[students_i]), n, i + 1,
                                  even_list, odd_list)

\* SeatingAllocator._create_even_odd_lists: the two lists returned, and the
\* branch_groups dict as the call leaves it
_create_even_odd_lists(branch_groups) ==
    LET n == Len(branch_groups)
        branch_wise_list == [i \in 1 .. n |-> branch_groups[i].students]
        \* even_list = [] and odd_list = [] are two new lists
        start == branch_wise_list \o << <<>>, <<>> >>
        d == DistributeLoop(start, n, 0, n + 1, n + 2)
        max_length == Max(Len(d.heap[d.even_list]), Len(d.heap[d.odd_list]))
        h1 == Extend(d.heap, d.even_list, Nones(max_length - Len(d.heap[d.even_list])))
        h2 == Extend(h1, d.odd_list, Nones(max_length - Len(h1[d.odd_list])))
    IN  [even_list |-> h2[d.even_list],
         odd_list  |-> h2[d.odd_list],
         branch_groups |-> [i \in 1 .. n |->
                              [branch |-> branch_groups[i].branch, students |-> h2[i]]]]

\* the band columns without the adjustment to 0-based seats
BandColumn_OneBased(band, col) ==
    IF band = "odd" THEN col * 2 - 1 ELSE col * 2

\* both bands walking the columns 0, 1, 2, ... one after the other
BandColumn_Consecutive(band, col) == col - 1

\* the column arithmetic of the two bands exchanged
BandColumn_Swapped(band, col) ==
    IF band = "odd" THEN (col * 2) - 1 ELSE (col * 2 - 1) - 1

\* 0-based seat column of the odd_col-th odd column and of the even_col-th
\* even column (both counted from 1)
BandColumn(band, col) ==
    IF band = "odd" THEN (col * 2 - 1) - 1 ELSE (col * 2) - 1

\* one band loop of _allocate_alternating_seats: for col in range(1, cols + 1),
\* for row in range(1, rows + 1); index is self.odd_index or self.even_index
RECURSIVE BandLoop(_, _, _, _, _, _, _)
BandLoop(room, list, index, col, row, cols, band) ==
    IF col > cols THEN [room |-> room, index |-> index, error |-> "none"]
    ELSE IF row > room.rows THEN BandLoop(room, list, index, col + 1, 1, cols, band)
    ELSE IF index < Len(list) /\ At(list, index) # None
         THEN IF OutOfBounds(room, row - 1, BandColumn(band, col))
              THEN [room |-> room, index |-> index, error |-> "IndexError"]
              ELSE BandLoop(set_seat(room, row - 1, BandColumn(band, col), At(list, index)),
                            list, index + 1, col, row + 1, cols, band)
         ELSE BandLoop(room, list, index + 1, col, row + 1, cols, band)

\* the banded walk with both bands filled from odd_list
_allocate_alternating_seats_SameList(room, even_list, odd_list, oi, ei) ==
    LET columns == room.columns
        odd_cols == (columns + 1) \div 2
        even_cols == columns - odd_cols
        o == BandLoop(room, odd_list, oi, 1, 1, odd_cols, "odd")
        e == IF o.error # "none"
             THEN [room |-> o.room, index |-> ei, error |-> o.error]
             ELSE BandLoop(o.room, odd_list, ei, 1, 1, even_cols, "even")
    IN  [room |-> e.room, odd_index |-> o.index, even_index |-> e.index,
         error |-> e.error]

\* the banded walk with the even band going on from the odd band's counter
_allocate_alternating_seats_OneCursor(room, even_list, odd_list, oi, ei) ==
    LET columns == room.columns
        odd_cols == (columns + 1) \div 2
        even_cols == columns - odd_cols
        o == BandLoop(room, odd_list, oi, 1, 1, odd_cols, "odd")
        e == IF o.error # "none"
             THEN [room |-> o.room, index |-> o.index, error |-> o.error]
             ELSE BandLoop(o.room, even_list, o.index, 1, 1, even_cols, "even")
    IN  [room |-> e.room, odd_index |-> e.index, even_index |-> e.index,
         error |-> e.error]

\* the banded walk with both counters restarted in every room
_allocate_alternating_seats_PerRoom(room, even_list, odd_list, oi, ei) ==
    LET columns == room.columns
        odd_cols == (columns + 1) \div 2
        even_cols == columns - odd_cols
        o == BandLoop(room, odd_list, 0, 1, 1, odd_cols, "odd")
        e == IF o.error # "none"
             THEN [room |-> o.room, index |-> 0, error |-> o.error]
             ELSE BandLoop(o.room, even_list, 0, 1, 1, even_cols, "even")
    IN  [room |-> e.room, odd_index |-> o.index, even_index |-> e.index,
         error |-> e.error]

\* SeatingAllocator._allocate_alternating_seats
_allocate_alternating_seats(room, even_list, odd_list, oi, ei) ==
    LET columns == room.columns
        odd_cols == (columns + 1) \div 2
        even_cols == columns - odd_cols
        o == BandLoop(room, odd_list, oi, 1, 1, odd_cols, "odd")
        e == IF o.error # "none"
             THEN [room |-> o.room, index |-> ei, error |-> o.error]
             ELSE BandLoop(o.room, even_list, ei, 1, 1, even_cols, "even")
    IN  [room |-> e.room, odd_index |-> o.index, even_index |-> e.index,
         error |-> e.error]

\* the loops of _allocate_sequential_seats: for col in range(columns),
\* for row in range(rows)
RECURSIVE SequentialLoop(_, _, _, _, _)
SequentialLoop(room, sts, k, col, row) ==
    IF col >= room.columns THEN [room |-> room, error |-> "none"]
    ELSE IF row >= room.rows THEN SequentialLoop(room, sts, k, col + 1, 0)
    ELSE IF k < Len(sts) /\ At(sts, k) # None
         THEN IF OutOfBounds(room, row, col)
              THEN [room |-> room, error |-> "IndexError"]
              ELSE SequentialLoop(set_seat(room, row, col, At(sts, k)), sts, k + 1, col, row + 1)
         ELSE SequentialLoop(room, sts, k + 1, col, row + 1)

\* the sequential walk with k starting from 1
_allocate_sequential_seats_FromOne(room, sts) == SequentialLoop(room, sts, 1, 0, 0)

\* SeatingAllocator._allocate_sequential_seats: k starts from 0 in every call
_allocate_sequential_seats(room, sts) == SequentialLoop(room, sts, 0, 0, 0)

\* the loop of allocate_seats over self.exam_session.rooms
RECURSIVE RoomLoop(_, _, _, _, _, _, _)
RoomLoop(rs, i, even_list, odd_list, n_groups, oi, ei) ==
    IF i > Len(rs)
    THEN [rooms |-> rs, odd_index |-> oi, even_index |-> ei, error |-> "none"]
    ELSE LET room == clear_all_seats(rs[i]) IN
         IF even_list = <<>> /\ odd_list = <<>>
         THEN RoomLoop([rs EXCEPT ![i] = room], i + 1, even_list, odd_list, n_groups, oi, ei)
         ELSE IF n_groups > 1
         THEN LET a == _allocate_alternating_seats(room, even_list, odd_list, oi, ei) IN
              IF a.error # "none"
              THEN [rooms |-> [rs EXCEPT ![i] = a.room], odd_index |-> a.odd_index,
                    even_index |-> a.even_index, error |-> a.error]
              ELSE RoomLoop([rs EXCEPT ![i] = a.room], i + 1, even_list, odd_list,
                            n_groups, a.odd_index, a.even_index)
         ELSE LET q == _allocate_sequential_seats(room, even_list \o odd_list) IN
              IF q.error # "none"
              THEN [rooms |-> [rs EXCEPT ![i] = q.room], odd_index |-> oi,
                    even_index |-> ei, error |-> q.error]
              ELSE RoomLoop([rs EXCEPT ![i] = q.room], i + 1, even_list, odd_list,
                            n_groups, oi, ei)

\* allocate_seats that keeps the counters of the previous run
allocate_seats_NoReset(sts, rs) ==
    LET branch_groups == get_students_by_branch(sts)
        lists == _create_even_odd_lists(branch_groups)
    IN  RoomLoop(rs, 1, lists.even_list, lists.odd_list, Len(branch_groups),
                 odd_index, even_index)

\* SeatingAllocator.allocate_seats past the capacity gate: group, build the
\* lists, reset the counters, walk the rooms
allocate_seats(sts, rs) ==
    LET branch_groups == get_students_by_branch(sts)
        lists == _create_even_odd_lists(branch_groups)
    IN  RoomLoop(rs, 1, lists.even_list, lists.odd_list, Len(branch_groups), 0, 0)

----------------------------------------------------------------------------
(* SeatingAllocator.generate_statistics *)

\* the branch_distribution dict of one room: seats whose student and whose
\* branch_name are both truthy, counted per branch
branch_distribution(room) ==
    LET counted == {s \in Seats(room) :
                      /\ get_seat(room, s[1], s[2]) # None
                      /\ get_seat(room, s[1], s[2]).branch_name # ""}
        branches == {get_seat(room, s[1], s[2]).branch_name : s \in counted}
    IN  [b \in branches |->
           Cardinality({s \in counted : get_seat(room, s[1], s[2]).branch_name = b})]

\* room_stats of one room
room_stats(room) ==
    [capacity |-> capacity(room),
     assigned_seats |-> capacity(room) - get_empty_seats_count(room),
     branch_distribution |-> branch_distribution(room)]

\* stats['rooms_stats'], a dict keyed by room_no, filled in room order
RECURSIVE RoomsStatsLoop(_, _, _)
RoomsStatsLoop(rs, i, d) ==
    IF i > Len(rs) THEN d
    ELSE RoomsStatsLoop(rs, i + 1,
           [k \in (DOMAIN d) \cup {rs[i].room_no} |->
              IF k = rs[i].room_no THEN room_stats(rs[i]) ELSE d[k]])

\* stats['branch_stats']: the size of every branch group of the roster
branch_stats(sts) ==
    LET groups == get_students_by_branch(sts)
    IN  [b \in {groups[i].branch : i \in 1 .. Len(groups)} |->
           Len(groups[GroupIndex(groups, b, 1)].students)]

generate_statistics(sts, rs) ==
    [total_students |-> Len(sts),
     total_rooms |-> Len(rs),
     total_capacity |-> get_total_capacity(rs),
     rooms_stats |-> RoomsStatsLoop(rs, 1, <<>>),
     branch_stats |-> branch_stats(sts)]

\* value of stats while no statistics have been returned
NoStats ==
    [total_students |-> -1, total_rooms |-> -1, total_capacity |-> -1,
     rooms_stats |-> <<>>, branch_stats |-> <<>>]

----------------------------------------------------------------------------
(* The session and its allocator as a state machine.  op names the last    *)
(* operation, result the value allocate_seats returned, error the          *)
(* exception it raised, stats the dict generate_statistics returned and    *)
(* rooms_before the room list as it was when allocate_seats was entered.   *)
(* args and returned hold the arguments and the returned value of the last *)
(* call of the operations that take or return more than that.              *)

\* returned while the last operation returned nothing
NoValue == <<>>

Init ==
    /\ students = <<>>
    /\ rooms = <<>>
    /\ odd_index = 0
    /\ even_index = 0
    /\ op = "init"
    /\ result = FALSE
    /\ error = "none"
    /\ stats = NoStats
    /\ rooms_before = <<>>
    /\ args = <<>>
    /\ returned = NoValue

\* the hall tickets of the roster sts
Enrolled(sts) == {sts[i].hallticket_no : i \in 1 .. Len(sts)}

\* ExamSession.add_student; the rosters explored hold distinct hall tickets,
\* those of one branch code in serial order
add_student(h) ==
    /\ Len(students) < MaxStudents
    /\ h \notin Enrolled(students)
    /\ \A g \in HallTickets :
          (g \div 100 = h \div 100 /\ g < h) => g \in Enrolled(students)
    /\ students' = Append(students, Student(h))
    /\ op' = "add_student"
    /\ result' = FALSE /\ error' = "none" /\ stats' = NoStats
    /\ rooms_before' = <<>> /\ args' = <<>> /\ returned' = NoValue
    /\ UNCHANGED <<rooms, odd_index, even_index>>

\* ExamSession.add_room with a newly constructed Room; the room lists
\* explored take the lowest room number not in use
add_room(room_no, rows, columns) ==
    /\ Len(rooms) < MaxRooms
    /\ \A i \in 1 .. Len(rooms) : rooms[i].room_no # room_no
    /\ \A n \in RoomNos : n < room_no => \E i \in 1 .. Len(rooms) : rooms[i].room_no = n
    /\ rooms' = Append(rooms, Room(room_no, rows, columns))
    /\ op' = "add_room"
    /\ result' = FALSE /\ error' = "none" /\ stats' = NoStats
    /\ rooms_before' = <<>> /\ args' = <<>> /\ returned' = NoValue
    /\ UNCHANGED <<students, odd_index, even_index>>

\* allocate_seats clearing the rooms before the capacity gate
AllocateSeats_ClearsFirst ==
    /\ op' = "allocate_seats"
    /\ rooms_before' = rooms
    /\ stats' = NoStats
    /\ UNCHANGED <<students, args, returned>>
    /\ IF ~has_sufficient_capacity(students, rooms)
       THEN /\ result' = FALSE
            /\ error' = "none"
            /\ rooms' = [i \in 1 .. Len(rooms) |-> clear_all_seats(rooms[i])]
            /\ UNCHANGED <<odd_index, even_index>>
       ELSE LET a == allocate_seats(students, rooms) IN
            /\ rooms' = a.rooms
            /\ odd_index' = a.odd_index
            /\ even_index' = a.even_index
            /\ error' = a.error
            /\ result' = (a.error = "none")

\* allocate_seats that goes on from the counters of the previous run
AllocateSeats_CursorsCarried ==
    /\ op' = "allocate_seats"
    /\ rooms_before' = rooms
    /\ stats' = NoStats
    /\ UNCHANGED <<students, args, returned>>
    /\ IF ~has_sufficient_capacity(students, rooms)
       THEN /\ result' = FALSE
            /\ error' = "none"
            /\ UNCHANGED <<rooms, odd_index, even_index>>
       ELSE LET a == allocate_seats_NoReset(students, rooms) IN
            /\ rooms' = a.rooms
            /\ odd_index' = a.odd_index
            /\ even_index' = a.even_index
            /\ error' = a.error
            /\ result' = (a.error = "none")

\* SeatingAllocator.allocate_seats
AllocateSeats ==
    /\ op' = "allocate_seats"
    /\ rooms_before' = rooms
    /\ stats' = NoStats
    /\ UNCHANGED <<students, args, returned>>
    /\ IF ~has_sufficient_capacity(students, rooms)
       THEN /\ result' = FALSE
            /\ error' = "none"
            /\ UNCHANGED <<rooms, odd_index, even_index>>
       ELSE LET a == allocate_seats(students, rooms) IN
            /\ rooms' = a.rooms
            /\ odd_index' = a.odd_index
            /\ even_index' = a.even_index
            /\ error' = a.error
            /\ result' = (a.error = "none")

\* generate_statistics that empties the rooms it has counted
GenerateStatistics_Clears ==
    /\ op' = "generate_statistics"
    /\ stats' = generate_statistics(students, rooms)
    /\ result' = FALSE /\ error' = "none"
    /\ rooms_before' = <<>>
    /\ rooms' = [i \in 1 .. Len(rooms) |-> clear_all_seats(rooms[i])]
    /\ UNCHANGED <<students, odd_index, even_index, args, returned>>

\* SeatingAllocator.generate_statistics
GenerateStatistics ==
    /\ op' = "generate_statistics"
    /\ stats' = generate_statistics(students, rooms)
    /\ result' = FALSE /\ error' = "none"
    /\ rooms_before' = <<>>
    /\ UNCHANGED <<students, rooms, odd_index, even_index, args, returned>>

Next ==
    \/ \E h \in HallTickets : add_student(h)
    \/ \E n \in RoomNos, shape \in RoomShapes : add_room(n, shape[1], shape[2])
    \/ AllocateSeats
    \/ GenerateStatistics

Spec == Init /\ [][Next]_vars

----------------------------------------------------------------------------
(* controllers/room_controller.py and the seat operations of models/room.py *)
(* on the rooms the controller holds.  rooms is RoomController.rooms.       *)

\* room numbers, dimensions, seat positions and occupants the calls are made with
CtlRoomNos == {101, 102}

CtlShapes == {<<1, 2>>, <<0, 1>>, <<-1, -1>>}

Positions == -1 .. 2

SeatValues == {Student(501), Student(401)}

\* 1-based position of the first room with that number, 0 when absent
RECURSIVE FindRoom(_, _, _)
FindRoom(rs, room_no, i) ==
    IF i > Len(rs) THEN 0
    ELSE IF rs[i].room_no = room_no THEN i
    ELSE FindRoom(rs, room_no, i + 1)

\* the list without its element at 1-based position i (del l[i - 1])
Del(l, i) == SubSeq(l, 1, i - 1) \o SubSeq(l, i + 1, Len(l))

\* what every operation of this part leaves alone
SessionUnchanged == UNCHANGED <<students, odd_index, even_index, stats, rooms_before>>

\* RoomController.add_room
CtlAddRoom(room_no, rows, columns) ==
    /\ op' = "add_room"
    /\ args' = <<room_no, rows, columns>>
    /\ returned' = NoValue /\ result' = FALSE
    /\ IF \E i \in 1 .. Len(rooms) : rooms[i].room_no = room_no
       THEN error' = "ValueError" /\ UNCHANGED rooms
       ELSE error' = "none" /\ rooms' = Append(rooms, Room(room_no, rows, columns))
    /\ SessionUnchanged

\* update_room without the test for a room that already has the new number
UpdateRoom_Unchecked(original_room_no, room_no, rows, columns) ==
    /\ op' = "update_room"
    /\ args' = <<original_room_no, room_no, rows, columns>>
    /\ returned' = NoValue /\ result' = FALSE
    /\ LET i == FindRoom(rooms, original_room_no, 1) IN
       IF i = 0
       THEN error' = "ValueError" /\ UNCHANGED rooms
       ELSE /\ error' = "none"
            /\ rooms' = [rooms EXCEPT ![i] =
                           [room_no |-> room_no, rows |-> rows, columns |-> columns,
                            seating_grid |-> EmptyGrid(rows, columns)]]
    /\ SessionUnchanged

\* RoomController.update_room
UpdateRoom(original_room_no, room_no, rows, columns) ==
    /\ op' = "update_room"
    /\ args' = <<original_room_no, room_no, rows, columns>>
    /\ returned' = NoValue /\ result' = FALSE
    /\ LET i == FindRoom(rooms, original_room_no, 1) IN
       IF i = 0
       THEN error' = "ValueError" /\ UNCHANGED rooms
       ELSE IF room_no # original_room_no
               /\ \E j \in 1 .. Len(rooms) : rooms[j].room_no = room_no
       THEN error' = "ValueError" /\ UNCHANGED rooms
       ELSE /\ error' = "none"
            /\ rooms' = [rooms EXCEPT ![i] =
                           [room_no |-> room_no, rows |-> rows, columns |-> columns,
                            seating_grid |-> EmptyGrid(rows, columns)]]
    /\ SessionUnchanged

\* RoomController.delete_room
DeleteRoom(room_no) ==
    /\ op' = "delete_room"
    /\ args' = <<room_no>>
    /\ returned' = NoValue /\ result' = FALSE
    /\ LET room_to_delete == FindRoom(rooms, room_no, 1) IN
       IF room_to_delete = 0
       THEN error' = "ValueError" /\ UNCHANGED rooms
       ELSE error' = "none" /\ rooms' = Del(rooms, room_to_delete)
    /\ SessionUnchanged

\* set_seat that clamps the position into the grid instead of raising
SetSeat_Clamps(i, row, column, student) ==
    /\ i \in 1 .. Len(rooms)
    /\ op' = "set_seat"
    /\ args' = <<i, row, column, student>>
    /\ returned' = NoValue /\ result' = FALSE
    /\ IF rooms[i].rows <= 0 \/ rooms[i].columns <= 0
       THEN error' = "IndexError" /\ UNCHANGED rooms
       ELSE LET r == IF row < 0 THEN 0
                     ELSE IF row >= rooms[i].rows THEN rooms[i].rows - 1 ELSE row
                c == IF column < 0 THEN 0
                     ELSE IF column >= rooms[i].columns THEN rooms[i].columns - 1
                     ELSE column
            IN  /\ error' = "none"
                /\ rooms' = [rooms EXCEPT ![i] = set_seat(@, r, c, student)]
    /\ SessionUnchanged

\* Room.set_seat on the i-th room of the list
SetSeat(i, row, column, student) ==
    /\ i \in 1 .. Len(rooms)
    /\ op' = "set_seat"
    /\ args' = <<i, row, column, student>>
    /\ returned' = NoValue /\ result' = FALSE
    /\ IF OutOfBounds(rooms[i], row, column)
       THEN error' = "IndexError" /\ UNCHANGED rooms
       ELSE /\ error' = "none"
            /\ rooms' = [rooms EXCEPT ![i] = set_seat(@, row, column, student)]
    /\ SessionUnchanged

\* Room.get_seat on the i-th room of the list
GetSeat(i, row, column) ==
    /\ i \in 1 .. Len(rooms)
    /\ op' = "get_seat"
    /\ args' = <<i, row, column>>
    /\ result' = FALSE
    /\ IF OutOfBounds(rooms[i], row, column)
       THEN error' = "IndexError" /\ returned' = NoValue
       ELSE error' = "none" /\ returned' = get_seat(rooms[i], row, column)
    /\ UNCHANGED rooms
    /\ SessionUnchanged

\* Room.is_seat_empty on the i-th room of the list
IsSeatEmpty(i, row, column) ==
    /\ i \in 1 .. Len(rooms)
    /\ op' = "is_seat_empty"
    /\ args' = <<i, row, column>>
    /\ returned' = NoValue
    /\ IF OutOfBounds(rooms[i], row, column)
       THEN error' = "IndexError" /\ result' = FALSE
       ELSE error' = "none" /\ result' = is_seat_empty(rooms[i], row, column)
    /\ UNCHANGED rooms
    /\ SessionUnchanged

\* Room.clear_all_seats on the i-th room of the list
ClearAllSeats(i) ==
    /\ i \in 1 .. Len(rooms)
    /\ op' = "clear_all_seats"
    /\ args' = <<i>>
    /\ returned' = NoValue /\ result' = FALSE /\ error' = "none"
    /\ rooms' = [rooms EXCEPT ![i] = clear_all_seats(@)]
    /\ SessionUnchanged

RoomNext ==
    \/ \E n \in CtlRoomNos, shape \in CtlShapes : CtlAddRoom(n, shape[1], shape[2])
    \/ \E o \in CtlRoomNos, n \in CtlRoomNos, shape \in CtlShapes :
          UpdateRoom(o, n, shape[1], shape[2])
    \/ \E n \in CtlRoomNos : DeleteRoom(n)
    \/ \E i \in DOMAIN rooms, r \in Positions, c \in Positions, st \in SeatValues :
          SetSeat(i, r, c, st)
    \/ \E i \in DOMAIN rooms, r \in Positions, c \in Positions : GetSeat(i, r, c)
    \/ \E i \in DOMAIN rooms, r \in Positions, c \in Positions : IsSeatEmpty(i, r, c)
    \/ \E i \in DOMAIN rooms : ClearAllSeats(i)

RoomSpec == Init /\ [][RoomNext]_vars

----------------------------------------------------------------------------
(* The session's roster and room list under additions and removals, and the *)
(* capacity queries on them.                                                *)

SessionTickets == {501, 502, 401}

\* 1-based position of the first student with that hall ticket, 0 when absent
RECURSIVE FindStudent(_, _, _)
FindStudent(sts, hallticket_no, i) ==
    IF i > Len(sts) THEN 0
    ELSE IF sts[i].hallticket_no = hallticket_no THEN i
    ELSE FindStudent(sts, hallticket_no, i + 1)

\* what the queries and removals leave alone
AllocationUnchanged == UNCHANGED <<odd_index, even_index, stats, rooms_before, error>>

\* ExamSession.remove_student
remove_student(hallticket_no) ==
    /\ op' = "remove_student"
    /\ args' = <<hallticket_no>> /\ returned' = NoValue
    /\ LET i == FindStudent(students, hallticket_no, 1) IN
       IF i = 0
       THEN result' = FALSE /\ UNCHANGED students
       ELSE result' = TRUE /\ students' = Del(students, i)
    /\ UNCHANGED rooms
    /\ AllocationUnchanged

\* ExamSession.remove_room
remove_room(room_no) ==
    /\ op' = "remove_room"
    /\ args' = <<room_no>> /\ returned' = NoValue
    /\ LET i == FindRoom(rooms, room_no, 1) IN
       IF i = 0
       THEN result' = FALSE /\ UNCHANGED rooms
       ELSE result' = TRUE /\ rooms' = Del(rooms, i)
    /\ UNCHANGED students
    /\ AllocationUnchanged

\* a call of ExamSession.has_sufficient_capacity
HasSufficientCapacity ==
    /\ op' = "has_sufficient_capacity"
    /\ args' = <<>> /\ returned' = NoValue
    /\ result' = has_sufficient_capacity(students, rooms)
    /\ UNCHANGED <<students, rooms>>
    /\ AllocationUnchanged

\* a call of ExamSession.get_additional_capacity_needed
GetAdditionalCapacityNeeded ==
    /\ op' = "get_additional_capacity_needed"
    /\ args' = <<>> /\ result' = FALSE
    /\ returned' = get_additional_capacity_needed(students, rooms)
    /\ UNCHANGED <<students, rooms>>
    /\ AllocationUnchanged

\* a call of ArrangementController.check_capacity
CheckCapacity ==
    /\ op' = "check_capacity"
    /\ args' = <<>> /\ result' = FALSE
    /\ returned' = check_capacity(students, rooms)
    /\ UNCHANGED <<students, rooms>>
    /\ AllocationUnchanged

SessionNext ==
    \/ \E h \in SessionTickets : add_student(h)
    \/ \E n \in RoomNos, shape \in CtlShapes : add_room(n, shape[1], shape[2])
    \/ \E h \in SessionTickets : remove_student(h)
    \/ \E n \in RoomNos : remove_room(n)
    \/ HasSufficientCapacity
    \/ GetAdditionalCapacityNeeded
    \/ CheckCapacity

SessionSpec == Init /\ [][SessionNext]_vars

----------------------------------------------------------------------------
(* models/student.py on hall tickets written out as text: the constructor's *)
(* choice between deriving the branch and keeping the branch_name argument. *)
(* A hall ticket is a sequence of characters.                               *)

MaxIdLen == 11

\* the hall tickets constructed: "21321A", two code characters and a serial,
\* cut to every length up to MaxIdLen
IdPrefix == <<"2", "1", "3", "2", "1", "A">>

CodeChars == {"0", "1", "2", "5", "6", "9", "A"}

IdSerial == <<"0", "1", "1", "1", "1", "1">>

Identifiers ==
    {SubSeq(IdPrefix \o <<c1, c2>> \o IdSerial, 1, n) :
        c1 \in CodeChars, c2 \in CodeChars, n \in 0 .. MaxIdLen}

\* Python's None as a branch_name
NoBranch == "None"

BranchArguments == {NoBranch, "IT"}

DigitValue == ("0" :> 0) @@ ("1" :> 1) @@ ("2" :> 2) @@ ("3" :> 3) @@ ("4" :> 4)
              @@ ("5" :> 5) @@ ("6" :> 6) @@ ("7" :> 7) @@ ("8" :> 8) @@ ("9" :> 9)

\* branch_code in BRANCH_CODES, for the two characters hallticket_no[6:8];
\* the keys of the table are the two-digit strings of the numbers used here
InBranchCodes(branch_code) ==
    /\ branch_code[1] \in DOMAIN DigitValue
    /\ branch_code[2] \in DOMAIN DigitValue
    /\ (10 * DigitValue[branch_code[1]] + DigitValue[branch_code[2]]) \in DOMAIN BRANCH_CODES

\* Student._get_branch_from_hallticket on the text of the hall ticket
get_branch_from_hallticket_text(hallticket_no) ==
    IF Len(hallticket_no) = 10
    THEN LET branch_code == SubSeq(hallticket_no, 7, 8) IN
         IF InBranchCodes(branch_code)
         THEN BRANCH_CODES[10 * DigitValue[branch_code[1]] + DigitValue[branch_code[2]]]
         ELSE ""
    ELSE ""

\* Student.__init__(hallticket_no, branch_name=branch_name)
StudentInit(hallticket_no, branch_name) ==
    [hallticket_no |-> hallticket_no,
     branch_name   |-> IF branch_name = NoBranch /\ Len(hallticket_no) = 10
                       THEN get_branch_from_hallticket_text(hallticket_no)
                       ELSE branch_name]

\* a construction of a Student; returned is the branch_name it ends up with
Construct(hallticket_no, branch_name) ==
    /\ op' = "Student"
    /\ args' = <<hallticket_no, branch_name>>
    /\ returned' = StudentInit(hallticket_no, branch_name).branch_name
    /\ result' = FALSE /\ error' = "none"
    /\ UNCHANGED <<students, rooms, odd_index, even_index, stats, rooms_before>>

BranchNext == \E t \in Identifiers, b \in BranchArguments : Construct(t, b)

BranchSpec == Init /\ [][BranchNext]_vars

----------------------------------------------------------------------------
(* Grouping the roster by branch and building the two lists, as calls on a  *)
(* session whose roster grows.                                              *)

QueueTickets == {501, 502, 401, 402, 1201, 9901}

\* what the two calls leave alone
SessionKept ==
    UNCHANGED <<students, rooms, odd_index, even_index, stats, rooms_before, error, result>>

\* a call of ExamSession.get_students_by_branch
GetStudentsByBranch ==
    /\ op' = "get_students_by_branch"
    /\ args' = <<>>
    /\ returned' = get_students_by_branch(students)
    /\ SessionKept

\* a call of SeatingAllocator._create_even_odd_lists on the session's groups
CreateEvenOddLists ==
    /\ op' = "_create_even_odd_lists"
    /\ args' = <<get_students_by_branch(students)>>
    /\ returned' = _create_even_odd_lists(get_students_by_branch(students))
    /\ SessionKept

QueueNext ==
    \/ \E h \in QueueTickets : add_student(h)
    \/ GetStudentsByBranch
    \/ CreateEvenOddLists

QueueSpec == Init /\ [][QueueNext]_vars

----------------------------------------------------------------------------
(* The two walks of models/seating_allocator.py on one cleared room of any  *)
(* dimensions, as allocate_seats calls them.                                *)

MaxDim == 3

\* rows and columns of the room walked
Dimensions == (0 - MaxDim) .. MaxDim

\* the two lists the walks are called with, padded to equal length, and the
\* values the counters have when a room's walk starts
WalkOddList == <<Student(501), Student(502), Student(503), Student(504), None>>

WalkEvenList == <<Student(401), Student(402), Student(403), None, None>>

WalkCursors == 0 .. 2

\* what a walk leaves alone
WalkUnchanged == UNCHANGED <<students, stats, rooms_before, returned, result>>

\* room.clear_all_seats() followed by _allocate_alternating_seats on the room
AlternatingWalk(rows, columns, oi, ei) ==
    /\ op' = "_allocate_alternating_seats"
    /\ args' = <<rows, columns, oi, ei>>
    /\ LET a == _allocate_alternating_seats(clear_all_seats(Room(101, rows, columns)),
                                            WalkEvenList, WalkOddList, oi, ei)
       IN  /\ rooms' = <<a.room>>
           /\ odd_index' = a.odd_index
           /\ even_index' = a.even_index
           /\ error' = a.error
    /\ WalkUnchanged

\* room.clear_all_seats() followed by _allocate_sequential_seats on the room;
\* allocate_seats has set both counters to 0 and the walk leaves them there
SequentialWalk(rows, columns) ==
    /\ op' = "_allocate_sequential_seats"
    /\ args' = <<rows, columns>>
    /\ LET q == _allocate_sequential_seats(clear_all_seats(Room(101, rows, columns)),
                                           WalkEvenList \o WalkOddList)
       IN  /\ rooms' = <<q.room>>
           /\ error' = q.error
    /\ odd_index' = 0 /\ even_index' = 0
    /\ WalkUnchanged

WalkNext ==
    \/ \E rows \in Dimensions, columns \in Dimensions, oi \in WalkCursors, ei \in WalkCursors :
          AlternatingWalk(rows, columns, oi, ei)
    \/ \E rows \in Dimensions, columns \in Dimensions : SequentialWalk(rows, columns)

WalkSpec == Init /\ [][WalkNext]_vars

----------------------------------------------------------------------------
(* Vocabulary of the properties, stated on the state alone *)

\* allocate_seats has just returned True
Success == op = "allocate_seats" /\ result

\* every (room, row, column) of the room list rs
AllSeats(rs) ==
    UNION {{<<i, r, c>> : r \in 0 .. (rs[i].rows - 1), c \in 0 .. (rs[i].columns - 1)} :
             i \in 1 .. Len(rs)}

Occupant(rs, s) == rs[s[1]].seating_grid[s[2]][s[3]]

OccupiedSeats(rs) == {s \in AllSeats(rs) : Occupant(rs, s) # None}

SeatsOf(rs, student) == {s \in AllSeats(rs) : Occupant(rs, s) = student}

Roster == {students[i] : i \in 1 .. Len(students)}

\* sum of rows * columns over the rooms
RECURSIVE TotalCapacity(_)
TotalCapacity(rs) ==
    IF rs = <<>> THEN 0
    ELSE Head(rs).rows * Head(rs).columns + TotalCapacity(Tail(rs))

BranchesOf(sts) == {sts[i].branch_name : i \in 1 .. Len(sts)}

GroupSize(sts, b) == Cardinality({i \in 1 .. Len(sts) : sts[i].branch_name = b})

----------------------------------------------------------------------------
\* no room has a negative number of rows or columns
NonNegativeRooms(rs) == \A i \in 1 .. Len(rs) : rs[i].rows >= 0 /\ rs[i].columns >= 0

(* C1: after a successful allocate_seats the number of non-empty seats     *)
(* over all rooms equals the roster size (stated for rooms of non-negative *)
(* dimensions, which suffice to decide it).                                *)
C1_Conservation ==
    (Success /\ NonNegativeRooms(rooms)) =>
       Cardinality(OccupiedSeats(rooms)) = Len(students)

(* C2: after a successful allocate_seats every roster student occupies     *)
(* some seat (stated for rooms of non-negative dimensions).                *)
C2_EveryStudentSeated ==
    (Success /\ NonNegativeRooms(rooms)) =>
       \A st \in Roster : SeatsOf(rooms, st) # {}

(* C3: after a successful allocate_seats on a roster of distinct students  *)
(* every seated student appears in exactly one seat across all rooms.      *)
C3_ExactlyOneSeat ==
    Success =>
      \A s \in OccupiedSeats(rooms) :
         Cardinality(SeatsOf(rooms, Occupant(rooms, s))) = 1

(* C4: allocate_seats returns success if and only if the total capacity    *)
(* (sum of rows*columns over the rooms) is at least the roster size.       *)
C4_GateExact ==
    op = "allocate_seats" =>
       (result <=> TotalCapacity(rooms) >= Len(students))

C4_Witness ==
    /\ Success
    /\ Len(students) > 0
    /\ TotalCapacity(rooms) = Len(students)

(* C5: when allocate_seats fails the capacity gate it returns failure and  *)
(* every seat of every room holds what it held before the call, seating    *)
(* left by an earlier run included.                                        *)
C5_FailureLeavesRooms ==
    (op = "allocate_seats" /\ TotalCapacity(rooms_before) < Len(students)) =>
       (~result /\ rooms = rooms_before)

C5_Witness ==
    /\ op = "allocate_seats"
    /\ ~result
    /\ TotalCapacity(rooms_before) < Len(students)
    /\ OccupiedSeats(rooms_before) # {}
    /\ OccupiedSeats(rooms) = OccupiedSeats(rooms_before)

\* two seats of one room that share an edge
Adjacent(s, t) ==
    /\ s[1] = t[1]
    /\ \/ s[2] = t[2] /\ (s[3] - t[3] = 1 \/ t[3] - s[3] = 1)
       \/ s[3] = t[3] /\ (s[2] - t[2] = 1 \/ t[2] - s[2] = 1)

(* C6: two branch groups of equal size allocated into a single room: no    *)
(* two seats that share an edge both hold students of the same branch.     *)
C6_NoAdjacentSameBranch ==
    (/\ Success
     /\ Len(rooms) = 1
     /\ Cardinality(BranchesOf(students)) = 2
     /\ \A b1, b2 \in BranchesOf(students) :
           GroupSize(students, b1) = GroupSize(students, b2)) =>
       \A s, t \in OccupiedSeats(rooms) :
          Adjacent(s, t) =>
             Occupant(rooms, s).branch_name # Occupant(rooms, t).branch_name

\* branch of the first roster student, and the first branch that differs
FirstBranch == students[1].branch_name

SecondBranch ==
    LET i == CHOOSE i \in 1 .. Len(students) :
                /\ students[i].branch_name # FirstBranch
                /\ \A j \in 1 .. (i - 1) : students[j].branch_name = FirstBranch
    IN  students[i].branch_name

MultiBranch == Len(students) > 0 /\ Cardinality(BranchesOf(students)) > 1

(* C7, as claimed: in a multi-branch allocation the first-seen group sits  *)
(* only in the odd band (0-based columns 0, 2, 4, ...) and the second-seen *)
(* group only in the even band (0-based columns 1, 3, ...).                *)
C7_FirstGroupOddBand ==
    (Success /\ MultiBranch) =>
       \A s \in OccupiedSeats(rooms) :
          /\ Occupant(rooms, s).branch_name = FirstBranch => s[3] % 2 = 0
          /\ Occupant(rooms, s).branch_name = SecondBranch => s[3] % 2 = 1

(* C7, amended: in a multi-branch allocation the first-seen group forms    *)
(* even_list and sits only in the even band (1-based columns 2, 4, ...;    *)
(* 0-based 1, 3, ...), the second-seen group forms odd_list and sits only  *)
(* in the odd band (1-based columns 1, 3, 5, ...; 0-based 0, 2, 4, ...).   *)
C7_FirstGroupEvenBand ==
    (Success /\ MultiBranch) =>
       \A s \in OccupiedSeats(rooms) :
          /\ Occupant(rooms, s).branch_name = FirstBranch => s[3] % 2 = 1
          /\ Occupant(rooms, s).branch_name = SecondBranch => s[3] % 2 = 0

C7_Witness ==
    /\ Success
    /\ MultiBranch
    /\ \E s \in OccupiedSeats(rooms) : Occupant(rooms, s).branch_name = FirstBranch
    /\ \E s \in OccupiedSeats(rooms) : Occupant(rooms, s).branch_name = SecondBranch

(* C8: one branch and a single room of R rows and C columns that can hold  *)
(* the roster: the k-th roster student (0-based) sits at row k mod R,      *)
(* column k div R, and every other seat is empty.                          *)
C8_SingleBranchColumnMajor ==
    (/\ Success
     /\ Cardinality(BranchesOf(students)) = 1
     /\ Len(rooms) = 1
     /\ rooms[1].rows > 0 /\ rooms[1].columns > 0) =>
       \A s \in AllSeats(rooms) :
          LET k == s[3] * rooms[1].rows + s[2] IN
          Occupant(rooms, s) = IF k < Len(students) THEN At(students, k) ELSE None

C8_Witness ==
    /\ Success
    /\ Cardinality(BranchesOf(students)) = 1
    /\ Len(rooms) = 1
    /\ rooms[1].rows > 1 /\ rooms[1].columns > 1
    /\ Len(students) > rooms[1].rows
    /\ Occupant(rooms, <<1, 0, 1>>) = At(students, rooms[1].rows)
    /\ \E s \in AllSeats(rooms) : Occupant(rooms, s) = None

\* the rooms rs as newly constructed, every grid empty
FreshRooms(rs) ==
    [i \in 1 .. Len(rs) |-> Room(rs[i].room_no, rs[i].rows, rs[i].columns)]

\* what the call produces on the current roster starting from empty grids
RunFromEmpty ==
    IF has_sufficient_capacity(students, rooms_before)
    THEN allocate_seats(students, FreshRooms(rooms_before)).rooms
    ELSE FreshRooms(rooms_before)

(* C9, as claimed: every call of allocate_seats leaves every grid equal to *)
(* what the same call produces starting from empty grids.                  *)
C9_AlwaysOverwrites == op = "allocate_seats" => rooms = RunFromEmpty

(* C9, amended: a call of allocate_seats that passes the capacity gate     *)
(* leaves every grid equal to what the same call produces starting from    *)
(* empty grids; no entry of a prior run survives it.                       *)
C9_SuccessOverwrites == Success => rooms = RunFromEmpty

C9_Witness ==
    /\ Success
    /\ \E s \in OccupiedSeats(rooms_before) : Occupant(rooms, s) = None

\* sum of the values of a dict
RECURSIVE SumFn(_)
SumFn(f) ==
    IF DOMAIN f = {} THEN 0
    ELSE LET k == CHOOSE k \in DOMAIN f : TRUE
         IN  f[k] + SumFn([j \in (DOMAIN f) \ {k} |-> f[j]])

(* C10: the branch_distribution counts summed over rooms and branches      *)
(* equal the assigned_seats summed over rooms, which equal the number of   *)
(* students seated in the grids (stated for rooms of non-negative          *)
(* dimensions).                                                            *)
C10_StatisticsRoundTrip ==
    (/\ op = "generate_statistics"
     /\ NonNegativeRooms(rooms)
     /\ OccupiedSeats(rooms) # {}) =>
       LET rs == stats.rooms_stats
           perBranch == SumFn([k \in DOMAIN rs |-> SumFn(rs[k].branch_distribution)])
           assigned == SumFn([k \in DOMAIN rs |-> rs[k].assigned_seats])
       IN  /\ perBranch = assigned
           /\ assigned = Cardinality(OccupiedSeats(rooms))

----------------------------------------------------------------------------
\* a room whose rows or columns are zero or negative
Malformed(room) == room.rows <= 0 \/ room.columns <= 0

\* total capacity when malformed rooms count for nothing
RECURSIVE WellFormedCapacity(_)
WellFormedCapacity(rs) ==
    IF rs = <<>> THEN 0
    ELSE (IF Malformed(Head(rs)) THEN 0 ELSE Head(rs).rows * Head(rs).columns)
         + WellFormedCapacity(Tail(rs))

(* C11: a room whose rows or columns are zero or negative contributes      *)
(* exactly 0 to the total capacity the gate uses, and never receives a     *)
(* seat.                                                                   *)
C11_MalformedRoomIsZeroCapacity ==
    /\ \A i \in 1 .. Len(rooms) :
          Malformed(rooms[i]) =>
             /\ capacity(rooms[i]) = 0
             /\ \A s \in OccupiedSeats(rooms) : s[1] # i
    /\ op = "allocate_seats" =>
          (result <=> WellFormedCapacity(rooms) >= Len(students))

----------------------------------------------------------------------------
\* the rooms rs with every seat holding the student st
FilledRooms(rs, st) ==
    [i \in 1 .. Len(rs) |->
       [rs[i] EXCEPT !.seating_grid =
          [r \in 0 .. (rs[i].rows - 1) |-> [c \in 0 .. (rs[i].columns - 1) |-> st]]]]

\* what a run on the current roster leaves in rooms that held prior before
RunFrom(prior) ==
    IF has_sufficient_capacity(students, prior)
    THEN allocate_seats(students, prior).rooms
    ELSE prior

\* the same room list with other contents: empty, or full of the first or
\* of the last roster student
OtherPriors ==
    {FreshRooms(rooms_before)}
       \cup {FilledRooms(rooms_before, students[i]) :
                i \in {1, Len(students)} \cap (1 .. Len(students))}

(* C12, as claimed: a run of allocate_seats leaves the grids that any      *)
(* other run on the same roster and room list leaves, whatever the grids   *)
(* held before.                                                            *)
C12_Deterministic ==
    op = "allocate_seats" => \A prior \in OtherPriors : RunFrom(prior) = rooms

(* C12, amended: a run of allocate_seats that passes the capacity gate     *)
(* leaves the grids that any other run on the same roster and room list    *)
(* leaves, whatever the grids held before.                                 *)
C12_DeterministicPastGate ==
    Success => \A prior \in OtherPriors : RunFrom(prior) = rooms

C12_Witness ==
    /\ Success
    /\ Len(students) > 1
    /\ OccupiedSeats(rooms_before) # {}
    /\ rooms_before # rooms
    /\ \E prior \in OtherPriors : prior # rooms_before /\ OccupiedSeats(prior) # {}

----------------------------------------------------------------------------
(* Seat access and the room controller, checked under RoomSpec *)

SeatOps == {"set_seat", "get_seat", "is_seat_empty"}

\* row or column outside 0..rows-1 / 0..columns-1
OutsideExtents(room, row, column) ==
    ~ (row \in 0 .. (room.rows - 1) /\ column \in 0 .. (room.columns - 1))

(* C13: set_seat, get_seat and is_seat_empty called with a row outside      *)
(* 0..rows-1 or a column outside 0..columns-1 fail with an out-of-bounds    *)
(* error, return nothing, and leave every room's grid as it was (so no      *)
(* position is clamped to a valid seat).                                    *)
C13_OutOfBoundsFails ==
    [][(op' \in SeatOps /\ OutsideExtents(rooms[args'[1]], args'[2], args'[3]))
          => (error' = "IndexError" /\ rooms' = rooms /\ returned' = NoValue)]_vars

\* a set_seat one row past the last row of a room that has seats, some taken
C13_Witness ==
    /\ op = "set_seat" /\ error = "IndexError"
    /\ rooms[args[1]].rows > 0 /\ rooms[args[1]].columns > 0
    /\ args[2] = rooms[args[1]].rows
    /\ args[3] \in 0 .. (rooms[args[1]].columns - 1)
    /\ \E s \in OccupiedSeats(rooms) : s[1] = args[1]

(* C17: every room's grid has exactly rows rows of columns seats, hence     *)
(* rows x columns cells, and after a successful update_room the room has    *)
(* the new dimensions and every seat is empty.                              *)
C17_GridMatchesDimensions ==
    /\ \A i \in 1 .. Len(rooms) :
          /\ Cardinality(DOMAIN rooms[i].seating_grid) = rooms[i].rows
          /\ \A r \in DOMAIN rooms[i].seating_grid :
                Cardinality(DOMAIN rooms[i].seating_grid[r]) = rooms[i].columns
          /\ Cardinality({s \in AllSeats(rooms) : s[1] = i})
                = rooms[i].rows * rooms[i].columns
    /\ (op = "update_room" /\ error = "none") =>
          \E i \in 1 .. Len(rooms) :
             /\ rooms[i].room_no = args[2]
             /\ rooms[i].rows = args[3] /\ rooms[i].columns = args[4]
             /\ \A s \in AllSeats(rooms) : s[1] = i => Occupant(rooms, s) = None

C18_SetSeatStep ==
    (op' = "set_seat" /\ error' = "none") =>
       LET i == args'[1]  r == args'[2]  c == args'[3]  s == args'[4] IN
       /\ get_seat(rooms'[i], r, c) = s
       /\ ~ is_seat_empty(rooms'[i], r, c)
       /\ Len(rooms') = Len(rooms)
       /\ \A j \in 1 .. Len(rooms) :
             /\ rooms'[j].rows = rooms[j].rows
             /\ rooms'[j].columns = rooms[j].columns
             /\ rooms'[j].room_no = rooms[j].room_no
       /\ \A q \in AllSeats(rooms) :
             q # <<i, r, c>> => Occupant(rooms', q) = Occupant(rooms, q)

C18_ReadBackStep ==
    (/\ op = "set_seat" /\ error = "none"
     /\ op' \in {"get_seat", "is_seat_empty"}
     /\ args' = SubSeq(args, 1, 3)) =>
       /\ error' = "none"
       /\ op' = "get_seat" => returned' = args[4]
       /\ op' = "is_seat_empty" => result' = FALSE

C18_ClearStep ==
    op' = "clear_all_seats" =>
       LET i == args'[1] IN
       /\ \A q \in AllSeats(rooms') : q[1] = i => Occupant(rooms', q) = None
       /\ rooms'[i].rows = rooms[i].rows
       /\ rooms'[i].columns = rooms[i].columns
       /\ \A q \in AllSeats(rooms) : q[1] = i => q \in AllSeats(rooms')

(* C18: for an in-bounds seat, set_seat(r, c, s) makes get_seat(r, c)       *)
(* return s and is_seat_empty(r, c) false and changes no other seat; a      *)
(* get_seat or is_seat_empty call that follows it on the same seat reports  *)
(* just that; clear_all_seats leaves every seat of the room empty and rows  *)
(* and columns as they were.                                                *)
C18_SeatRoundTrip ==
    [][C18_SetSeatStep /\ C18_ReadBackStep /\ C18_ClearStep]_vars

\* get_seat read a student back from a room whose other seat holds another one
C18_Witness ==
    /\ op = "get_seat" /\ error = "none"
    /\ returned = Student(401)
    /\ \E q \in OccupiedSeats(rooms) :
          /\ q[1] = args[1] /\ <<q[2], q[3]>> # <<args[2], args[3]>>
          /\ Occupant(rooms, q) = Student(501)

----------------------------------------------------------------------------
(* The capacity queries, checked under SessionSpec *)

(* C14: after any sequence of add_student, add_room, remove_student and     *)
(* remove_room, has_sufficient_capacity is true iff total capacity >=       *)
(* roster size, get_additional_capacity_needed is roster size minus total   *)
(* capacity when capacity is insufficient and 0 otherwise, and              *)
(* check_capacity reports the same verdict with extra_capacity = total      *)
(* capacity minus roster size when sufficient and 0 otherwise.              *)
C14_PreCheckAgrees ==
    LET cap == TotalCapacity(rooms)
        n == Len(students)
    IN  /\ op = "has_sufficient_capacity" => (result <=> cap >= n)
        /\ op = "get_additional_capacity_needed" =>
              returned = (IF cap < n THEN n - cap ELSE 0)
        /\ op = "check_capacity" =>
              /\ returned.sufficient <=> cap >= n
              /\ returned.extra_capacity = (IF cap >= n THEN cap - n ELSE 0)
              /\ returned.additional_needed = (IF cap < n THEN n - cap ELSE 0)
              /\ returned.total_students = n
              /\ returned.total_capacity = cap

\* a surplus reported for a roster and a room list that only removals can
\* have produced: ticket 502 without 501, room 102 without 101
C14_Witness ==
    /\ op = "get_additional_capacity_needed" /\ returned = 0
    /\ Len(rooms) = 1 /\ rooms[1].room_no = 102
    /\ TotalCapacity(rooms) > Len(students)
    /\ Len(students) = 1 /\ students[1].hallticket_no = 502

----------------------------------------------------------------------------
(* C15: generate_statistics is read-only: a call leaves every seat of every *)
(* room, the roster, the room list and the allocator's two cursors exactly  *)
(* as they were before the call.                                            *)
C15_StatisticsReadOnly ==
    [][op' = "generate_statistics" =>
          /\ students' = students
          /\ rooms' = rooms
          /\ odd_index' = odd_index /\ even_index' = even_index]_vars

\* statistics taken of rooms that hold students, with both cursors advanced
C15_Witness ==
    /\ op = "generate_statistics"
    /\ OccupiedSeats(rooms) # {}
    /\ odd_index > 0 /\ even_index > 0
    /\ stats # NoStats

----------------------------------------------------------------------------
(* Branch derivation, checked under BranchSpec *)

DigitChars == <<"0", "1", "2", "3", "4", "5", "6", "7", "8", "9">>

\* the two-character table key of a numbered branch code
TwoDigits(k) == <<DigitChars[(k \div 10) + 1], DigitChars[(k % 10) + 1]>>

\* the label the code table gives characters 6-7 (0-indexed), or the empty one
TableLabel(text) ==
    IF \E k \in DOMAIN BRANCH_CODES : TwoDigits(k) = <<text[7], text[8]>>
    THEN BRANCH_CODES[CHOOSE k \in DOMAIN BRANCH_CODES : TwoDigits(k) = <<text[7], text[8]>>]
    ELSE ""

(* C16: a student constructed without an explicit branch gets, when the     *)
(* identifier has length 10, the label the code table maps characters 6-7   *)
(* to, or the empty label when the code is not in the table; an identifier  *)
(* of any other length yields the empty label.                              *)
C16_BranchDerivation ==
    (op = "Student" /\ args[2] = NoBranch) =>
       IF Len(args[1]) = 10 THEN returned = TableLabel(args[1])
       ELSE returned = ""

----------------------------------------------------------------------------
\* the students of a Python list, padding left out
Members(list) == {list[i] : i \in 1 .. Len(list)} \ {None}

(* C19: the students whose branch label is empty form one branch group of   *)
(* their own, which counts as a group in the more-than-one-group decision   *)
(* and goes into the two queues like any other group, and after a           *)
(* successful allocate_seats each of them has a seat (stated for rooms of   *)
(* non-negative dimensions).                                                *)
C19_EmptyLabelGroupSeated ==
    (Success /\ NonNegativeRooms(rooms) /\ "" \in BranchesOf(students)) =>
       LET branch_groups == get_students_by_branch(students)
           lists == _create_even_odd_lists(branch_groups)
           unknown == {st \in Roster : st.branch_name = ""}
       IN  /\ \E g \in 1 .. Len(branch_groups) :
                 /\ branch_groups[g].branch = ""
                 /\ Members(branch_groups[g].students) = unknown
           /\ Len(branch_groups) = Cardinality(BranchesOf(students))
           /\ unknown \subseteq Members(lists.even_list) \cup Members(lists.odd_list)
           /\ \A st \in unknown : SeatsOf(rooms, st) # {}

----------------------------------------------------------------------------
\* 0-based position of the seat s in the concatenation of the rooms'
\* column-major cell orders, rooms in session order
GlobalCell(rs, s) ==
    TotalCapacity(SubSeq(rs, 1, s[1] - 1)) + s[3] * rs[s[1]].rows + s[2]

(* C20: with one branch group and several rooms, the k-th roster student    *)
(* (0-based) sits in the k-th cell of the concatenation of the rooms'       *)
(* column-major cell orders and every further cell is empty, so a later     *)
(* room continues with the first student the earlier rooms did not seat     *)
(* (stated for rooms of non-negative dimensions).                           *)
C20_OneGlobalCursor ==
    (/\ Success
     /\ Cardinality(BranchesOf(students)) = 1
     /\ Len(rooms) > 1
     /\ NonNegativeRooms(rooms)) =>
       \A s \in AllSeats(rooms) :
          LET k == GlobalCell(rooms, s) IN
          Occupant(rooms, s) = IF k < Len(students) THEN At(students, k) ELSE None

----------------------------------------------------------------------------
(* The banded walk across rooms, checked under Spec *)

\* the queues the run was made with
Queues == _create_even_odd_lists(get_students_by_branch(students))

\* the band of a seat: 0-based columns 0, 2, ... are the odd band
BandOf(s) == IF s[3] % 2 = 0 THEN "odd" ELSE "even"

QueueOf(band) == IF band = "odd" THEN Queues.odd_list ELSE Queues.even_list

\* the seats of room i that lie in a band
BandCells(rs, i, band) == {s \in AllSeats(rs) : s[1] = i /\ BandOf(s) = band}

RECURSIVE BandCellsBefore(_, _, _)
BandCellsBefore(rs, i, band) ==
    IF i <= 1 THEN 0
    ELSE Cardinality(BandCells(rs, i - 1, band)) + BandCellsBefore(rs, i - 1, band)

\* 0-based position of a seat among the cells of its band in the global
\* order: rooms in session order, band columns left to right, rows top down
BandPosition(rs, s) ==
    BandCellsBefore(rs, s[1], BandOf(s)) + (s[3] \div 2) * rs[s[1]].rows + s[2]

(* C21: in a multi-branch allocation each band's cursor runs on across the  *)
(* rooms: the i-th entry of a band's queue is in the i-th cell of that band *)
(* in the global order, the cell of a placeholder entry is empty, and the   *)
(* cells past the end of the queue are empty.                               *)
C21_BandCursorAcrossRooms ==
    (Success /\ MultiBranch) =>
       \A s \in AllSeats(rooms) :
          LET k == BandPosition(rooms, s)
              queue == QueueOf(BandOf(s))
          IN  Occupant(rooms, s) = IF k < Len(queue) THEN At(queue, k) ELSE None

\* a second room whose band continues where the first room's band stopped,
\* a placeholder that left its cell empty, and a cell past the queue's end
C21_Witness ==
    /\ Success /\ MultiBranch
    /\ Len(rooms) > 1
    /\ \E s \in OccupiedSeats(rooms) :
          /\ s[1] > 1
          /\ BandCellsBefore(rooms, s[1], BandOf(s)) > 0
          /\ BandPosition(rooms, s) >= BandCellsBefore(rooms, s[1], BandOf(s))
    /\ \E s \in AllSeats(rooms) :
          /\ BandPosition(rooms, s) < Len(QueueOf(BandOf(s)))
          /\ At(QueueOf(BandOf(s)), BandPosition(rooms, s)) = None
    /\ \E s \in AllSeats(rooms) : BandPosition(rooms, s) >= Len(QueueOf(BandOf(s)))

----------------------------------------------------------------------------
(* Building the two queues, checked under QueueSpec *)

\* queue A or B after the first k groups are placed: the first group makes
\* A, the second makes B, and each later group goes whole to B when A is
\* longer than B at that moment, to A otherwise
RECURSIVE QueueAfter(_, _, _)
QueueAfter(groups, k, q) ==
    IF k = 0 THEN <<>>
    ELSE LET a == QueueAfter(groups, k - 1, "A")
             b == QueueAfter(groups, k - 1, "B")
             g == groups[k].students
         IN  IF k = 1 THEN (IF q = "A" THEN g ELSE b)
             ELSE IF k = 2 THEN (IF q = "B" THEN g ELSE a)
             ELSE IF Len(a) > Len(b) THEN (IF q = "B" THEN b \o g ELSE a)
             ELSE (IF q = "A" THEN a \o g ELSE b)

IsStudent(x) == x # None

\* the entries of a queue that are students
Real(queue) == SelectSeq(queue, IsStudent)

(* C22: the first group's queue (even_list) and the second group's queue    *)
(* (odd_list) hold, before padding, what placing the groups one by one      *)
(* gives: every group after the second whole at the end of the second       *)
(* queue when the first is longer at that moment, whole at the end of the   *)
(* first otherwise, ties included.                                          *)
C22_LaterGroupsByLength ==
    op = "_create_even_odd_lists" =>
       /\ Real(returned.even_list) = QueueAfter(args[1], Len(args[1]), "A")
       /\ Real(returned.odd_list) = QueueAfter(args[1], Len(args[1]), "B")

\* four groups: one placed on a tie, one placed while the first queue is longer
C22_Witness ==
    /\ op = "_create_even_odd_lists"
    /\ Len(args[1]) = 4
    /\ \E k \in 3 .. 4 :
          Len(QueueAfter(args[1], k - 1, "A")) = Len(QueueAfter(args[1], k - 1, "B"))
    /\ \E k \in 3 .. 4 :
          Len(QueueAfter(args[1], k - 1, "A")) > Len(QueueAfter(args[1], k - 1, "B"))

\* number of positions of a queue that hold x
Occurrences(queue, x) == Cardinality({i \in 1 .. Len(queue) : queue[i] = x})

PlaceholdersAtEnd(queue) ==
    \A i, j \in 1 .. Len(queue) : (i < j /\ queue[i] = None) => queue[j] = None

(* C23: the two queues returned have equal length, placeholders are only a  *)
(* suffix of the queue with fewer students, the students of both queues     *)
(* together are the roster students, each exactly once, and the call leaves *)
(* the roster and the branch groups as they were.                           *)
C23_QueuesPaddedAndComplete ==
    [][op' = "_create_even_odd_lists" =>
          LET A == returned'.even_list
              B == returned'.odd_list
          IN  /\ Len(A) = Len(B)
              /\ PlaceholdersAtEnd(A) /\ PlaceholdersAtEnd(B)
              /\ Occurrences(A, None) > 0 => Len(Real(A)) < Len(Real(B))
              /\ Occurrences(B, None) > 0 => Len(Real(B)) < Len(Real(A))
              /\ \A st \in Roster : Occurrences(A, st) + Occurrences(B, st) = 1
              /\ Len(Real(A)) + Len(Real(B)) = Len(students)
              /\ students' = students
              /\ args'[1] = get_students_by_branch(students)
              /\ returned'.branch_groups = args'[1]]_vars

\* three groups, the second group's queue padded to the length of the first
C23_Witness ==
    /\ op = "_create_even_odd_lists"
    /\ Len(args[1]) >= 3
    /\ Occurrences(returned.odd_list, None) > 0
    /\ Len(Real(returned.odd_list)) > 0

----------------------------------------------------------------------------
\* position of the first roster student of branch b
FirstOccurrence(b) ==
    CHOOSE i \in 1 .. Len(students) :
       /\ students[i].branch_name = b
       /\ \A j \in 1 .. (i - 1) : students[j].branch_name # b

\* the roster students of branch b, in roster order
RECURSIVE OfBranch(_, _)
OfBranch(sts, b) ==
    IF sts = <<>> THEN <<>>
    ELSE IF Head(sts).branch_name = b THEN <<Head(sts)>> \o OfBranch(Tail(sts), b)
    ELSE OfBranch(Tail(sts), b)

(* C24: branch partitioning is stable: the groups come in the order of the  *)
(* first roster occurrence of their branch, one group per branch, each      *)
(* group holds its branch's students in roster order, and so every roster   *)
(* student is in exactly one group.                                         *)
C24_StablePartition ==
    op = "get_students_by_branch" =>
       LET groups == returned IN
       /\ {groups[g].branch : g \in 1 .. Len(groups)} = BranchesOf(students)
       /\ \A g, h \in 1 .. Len(groups) :
             g < h => FirstOccurrence(groups[g].branch) < FirstOccurrence(groups[h].branch)
       /\ \A g \in 1 .. Len(groups) :
             groups[g].students = OfBranch(students, groups[g].branch)
       /\ \A i \in 1 .. Len(students) :
             Cardinality({g \in 1 .. Len(groups) :
                            Occurrences(groups[g].students, students[i]) > 0}) = 1

\* three groups, the first with a student that joined after another branch's
C24_Witness ==
    /\ op = "get_students_by_branch"
    /\ Len(returned) >= 3
    /\ Len(returned[1].students) > 1
    /\ students[2].branch_name # students[1].branch_name

----------------------------------------------------------------------------
\* what a newly constructed allocator (both counters 0) leaves in the rooms
\* rs for the roster sts
FreshAllocatorRun(sts, rs) ==
    IF TotalCapacity(rs) >= Len(sts)
    THEN LET branch_groups == get_students_by_branch(sts)
             lists == _create_even_odd_lists(branch_groups)
         IN  RoomLoop(rs, 1, lists.even_list, lists.odd_list, Len(branch_groups), 0, 0).rooms
    ELSE rs

(* C25: the counters do not leak between runs: every call of allocate_seats *)
(* on an allocator that has run before leaves the grids a newly constructed *)
(* allocator leaves on the same roster and rooms, and calling it once more  *)
(* on the unchanged input leaves the grids as they are.                     *)
C25_NoCursorLeak ==
    op = "allocate_seats" =>
       /\ rooms = FreshAllocatorRun(students, rooms_before)
       /\ FreshAllocatorRun(students, rooms) = rooms

\* a banded run on an allocator whose earlier banded run had advanced both
\* counters, with the roster or the rooms changed in between
C25_Witness ==
    /\ Success /\ MultiBranch
    /\ odd_index > 0 /\ even_index > 0
    /\ \E s, t \in OccupiedSeats(rooms_before) :
          Occupant(rooms_before, s).branch_name # Occupant(rooms_before, t).branch_name
    /\ OccupiedSeats(rooms) # OccupiedSeats(rooms_before)

----------------------------------------------------------------------------
HorizontallyAdjacent(s, t) ==
    s[1] = t[1] /\ s[2] = t[2] /\ (s[3] - t[3] = 1 \/ t[3] - s[3] = 1)

(* C26: in a multi-branch allocation every occupied seat of a 0-based even  *)
(* column holds a student of the odd-band queue (odd_list) and every        *)
(* occupied seat of a 0-based odd column a student of the even-band queue   *)
(* (even_list); with exactly two branch groups no two horizontally adjacent *)
(* seats of a room hold students of the same branch.                        *)
C26_BandsHoldTheirQueues ==
    (Success /\ MultiBranch) =>
       /\ \A s \in OccupiedSeats(rooms) :
             IF s[3] % 2 = 0
             THEN Occupant(rooms, s) \in Members(Queues.odd_list)
             ELSE Occupant(rooms, s) \in Members(Queues.even_list)
       /\ Cardinality(BranchesOf(students)) = 2 =>
             \A s, t \in OccupiedSeats(rooms) :
                HorizontallyAdjacent(s, t) =>
                   Occupant(rooms, s).branch_name # Occupant(rooms, t).branch_name

\* two branch groups and a room with two occupied seats side by side
C26_Witness ==
    /\ Success
    /\ Cardinality(BranchesOf(students)) = 2
    /\ \E s, t \in OccupiedSeats(rooms) : HorizontallyAdjacent(s, t)
    /\ \E s \in OccupiedSeats(rooms) : s[3] = 2

----------------------------------------------------------------------------
\* 1-based position of the last student of a queue, 0 when it holds none
LastReal(queue) ==
    IF \E i \in 1 .. Len(queue) : queue[i] # None
    THEN CHOOSE i \in 1 .. Len(queue) :
            queue[i] # None /\ \A j \in (i + 1) .. Len(queue) : queue[j] = None
    ELSE 0

\* sum over the rooms of rows * ceil(columns / 2) for the odd band and of
\* rows * floor(columns / 2) for the even band
RECURSIVE BandCellCount(_, _)
BandCellCount(rs, band) ==
    IF rs = <<>> THEN 0
    ELSE Head(rs).rows * (IF band = "odd" THEN (Head(rs).columns + 1) \div 2
                                          ELSE Head(rs).columns \div 2)
         + BandCellCount(Tail(rs), band)

QueuesFitBands ==
    /\ LastReal(Queues.odd_list) <= BandCellCount(rooms, "odd")
    /\ LastReal(Queues.even_list) <= BandCellCount(rooms, "even")

(* C27: a successful multi-branch allocation seats every roster student     *)
(* exactly when the last student of the odd-band queue is at a position of  *)
(* at most the sum of rows*ceil(columns/2) and the last student of the      *)
(* even-band queue at a position of at most the sum of rows*floor(columns/2)*)
(* ; the students of a queue beyond that count are unseated.                *)
C27_SeatedIffQueuesFit ==
    (Success /\ MultiBranch) =>
       /\ (\A st \in Roster : SeatsOf(rooms, st) # {}) <=> QueuesFitBands
       /\ \A band \in {"odd", "even"} :
             \A i \in 1 .. Len(QueueOf(band)) :
                (i > BandCellCount(rooms, band) /\ QueueOf(band)[i] # None)
                   => SeatsOf(rooms, QueueOf(band)[i]) = {}

\* the cells of a band counted with a room of a zero or negative dimension
\* counting for none
RECURSIVE BandCellsPresent(_, _)
BandCellsPresent(rs, band) ==
    IF rs = <<>> THEN 0
    ELSE (IF Head(rs).rows <= 0 \/ Head(rs).columns <= 0 THEN 0
          ELSE Head(rs).rows * (IF band = "odd" THEN (Head(rs).columns + 1) \div 2
                                                ELSE Head(rs).columns \div 2))
         + BandCellsPresent(Tail(rs), band)

(* C27, amended: the same with a room of a zero or negative dimension       *)
(* counting for no cells in either band.                                    *)
C27_SeatedIffQueuesFitCells ==
    (Success /\ MultiBranch) =>
       /\ (\A st \in Roster : SeatsOf(rooms, st) # {}) <=>
             /\ LastReal(Queues.odd_list) <= BandCellsPresent(rooms, "odd")
             /\ LastReal(Queues.even_list) <= BandCellsPresent(rooms, "even")
       /\ \A band \in {"odd", "even"} :
             \A i \in 1 .. Len(QueueOf(band)) :
                (i > BandCellsPresent(rooms, band) /\ QueueOf(band)[i] # None)
                   => SeatsOf(rooms, QueueOf(band)[i]) = {}

\* a success that leaves a student of the even-band queue unseated past the
\* band's last cell, and seats the students before it, with a room of
\* negative dimensions in the list
C27_Witness ==
    /\ Success /\ MultiBranch
    /\ \E i \in 1 .. Len(rooms) : rooms[i].rows < 0
    /\ LastReal(Queues.even_list) > BandCellsPresent(rooms, "even")
    /\ BandCellsPresent(rooms, "even") > 0
    /\ \E st \in Roster : SeatsOf(rooms, st) = {}
    /\ \E st \in Roster : SeatsOf(rooms, st) # {}

----------------------------------------------------------------------------
\* the run went past the capacity gate
PassedGate == op = "allocate_seats" /\ TotalCapacity(rooms) >= Len(students)

(* C28: after a multi-branch run on a roster of distinct students no        *)
(* student is in more than one seat across all rooms, every occupied seat   *)
(* holds a roster student, and there are at most as many occupied seats as  *)
(* roster students.                                                         *)
C28_NoDuplicateSeating ==
    (PassedGate /\ MultiBranch) =>
       /\ \A st \in Roster : Cardinality(SeatsOf(rooms, st)) <= 1
       /\ \A s \in OccupiedSeats(rooms) : Occupant(rooms, s) \in Roster
       /\ Cardinality(OccupiedSeats(rooms)) <= Len(students)

\* a banded run over several rooms that wrote into more than one of them,
\* after a run that had left the same student in two rooms
C28_Witness ==
    /\ PassedGate /\ MultiBranch /\ result
    /\ \E s, t \in OccupiedSeats(rooms) : s[1] # t[1]
    /\ \E s, t \in OccupiedSeats(rooms_before) :
          s # t /\ Occupant(rooms_before, s) = Occupant(rooms_before, t)

----------------------------------------------------------------------------
(* The walks on rooms of any dimensions, checked under WalkSpec *)

(* C29: neither the banded nor the sequential walk runs into the            *)
(* out-of-bounds error of set_seat, whatever the room's rows and columns    *)
(* (zero and negative ones included): every seat written has                *)
(* 0 <= row < rows and 0 <= column < columns.                               *)
C29_WalksStayInBounds ==
    /\ error # "IndexError"
    /\ \A s \in OccupiedSeats(rooms) :
          /\ 0 <= s[2] /\ s[2] < rooms[s[1]].rows
          /\ 0 <= s[3] /\ s[3] < rooms[s[1]].columns

\* a banded walk that wrote the last row of the last column of a room with
\* an odd number of columns, and of the column before it
C29_Witness ==
    /\ op = "_allocate_alternating_seats" /\ error = "none"
    /\ rooms[1].columns = 3 /\ rooms[1].rows > 1
    /\ Occupant(rooms, <<1, rooms[1].rows - 1, 2>>) # None
    /\ Occupant(rooms, <<1, rooms[1].rows - 1, 1>>) # None

----------------------------------------------------------------------------
(* The room controller's list, checked under RoomSpec *)

HasRoom(rs, room_no) == \E i \in 1 .. Len(rs) : rs[i].room_no = room_no

DistinctRoomNumbers(rs) ==
    \A i, j \in 1 .. Len(rs) : i # j => rs[i].room_no # rs[j].room_no

\* the call of the step is one the controller must refuse
Refused ==
    \/ op' = "add_room" /\ HasRoom(rooms, args'[1])
    \/ op' = "update_room" /\ ~ HasRoom(rooms, args'[1])
    \/ op' = "update_room" /\ args'[2] # args'[1] /\ HasRoom(rooms, args'[2])
    \/ op' = "delete_room" /\ ~ HasRoom(rooms, args'[1])

(* C30: from the empty room list every sequence of add_room, update_room    *)
(* and delete_room keeps the room numbers pairwise distinct; an add_room    *)
(* with an existing number, an update_room of a missing room or to a number *)
(* another room holds, and a delete_room of a missing room raise an error   *)
(* and leave the list and every room's number, dimensions and grid as they  *)
(* were.                                                                    *)
C30_RoomNumbersStayDistinct ==
    [][/\ DistinctRoomNumbers(rooms')
       /\ Refused => (error' = "ValueError" /\ rooms' = rooms)]_vars

\* an update_room to the number of another room, refused, with a student
\* seated in the room that was to be renamed
C30_Witness ==
    /\ op = "update_room" /\ error = "ValueError"
    /\ Len(rooms) = 2
    /\ args[2] # args[1]
    /\ HasRoom(rooms, args[1]) /\ HasRoom(rooms, args[2])
    /\ \E s \in OccupiedSeats(rooms) : rooms[s[1]].room_no = args[1]

====
